---- MODULE Spec2Model ----
(***************************************************************************)
(* A model of the chart pipelines of CSVanalyTenhou:                       *)
(*   rate变化图生成.py      plot_rate_changes                               *)
(*   相关系数热力图生成.py  generate_correlation_heatmap,                   *)
(*                          generate_advanced_correlation_heatmap          *)
(*   csv数据分析.py         the report pipeline built on them              *)
(*   html网页生成.py        generate_html_report                            *)
(* together with the part of matplotlib.pyplot they share: the             *)
(* process-wide figure registry, rcParams and the files written.           *)
(***************************************************************************)
EXTENDS Integers, Sequences, FiniteSets, TLC

VARIABLES
    args,       \* the arguments of the call under study, fixed by Init
    figs,       \* pyplot's figure registry: the open figures, the current one last
    rcParams,   \* matplotlib's process-wide style and font settings
    files,      \* the images written to disk: path -> image
    ret,        \* the outcome of the latest call: what it returned or raised
    prev,       \* the outcome of the call before it
    threads,    \* the calls running in threads of their own: position and locals
    browser     \* main's file browser: the prompt's state and the last choice read

vars == <<args, figs, rcParams, files, ret, prev, threads, browser>>

\* ------------------------------------------------------------------------
\* Bounds of the model
\* ------------------------------------------------------------------------
MaxLen == 3          \* longest rate table (rows)
MaxBarLabels == 2    \* largest max_bar_labels tried
MaxFigs == 3         \* the registry is not grown past this many open figures
MaxCols == 2         \* widest correlation table (columns)
MaxMethods == 2      \* longest list of correlation methods
MaxGames == 4        \* longest CSV of the report (games)
MaxSeries == 5       \* longest series charted alone (rows)
MaxTickRows == 60    \* longest series whose ticks are sampled (rows)
MaxLabelRows == 23   \* longest series whose bars are labelled (rows)
MaxLabelCap == 5     \* largest max_bar_labels of those series
MaxFiles == 25       \* most CSV files in the directory

\* ------------------------------------------------------------------------
\* Sequences
\* ------------------------------------------------------------------------
Range(s) == {s[i] : i \in DOMAIN s}

SeqsUpTo(S, n) == UNION {[1..k -> S] : k \in 0..n}

MaxOf(S) == CHOOSE m \in S : \A x \in S : x <= m

\* ------------------------------------------------------------------------
\* matplotlib.pyplot: figures, the registry, savefig, rcParams
\* ------------------------------------------------------------------------
\* What a figure shows. A figure nobody drew on is blank.
Blank == [kind |-> "blank"]

\* rcParams at interpreter start (matplotlib's defaults).
DefaultRc == [style |-> "default", font_size |-> 10,
              sans_serif |-> "DejaVu Sans", unicode_minus |-> TRUE]

\* Figures that were open when a call began are not of that call's making.
Age(fs) == [i \in DOMAIN fs |-> [fs[i] EXCEPT !.fresh = FALSE]]

\* plt.figure() / plt.subplots(): a new figure, numbered past the open ones,
\* registered and made current.
PltFigure(fs) ==
    Append(fs, [num |-> IF fs = <<>> THEN 1
                        ELSE MaxOf({fs[i].num : i \in DOMAIN fs}) + 1,
                fresh |-> TRUE,
                art |-> Blank])

\* plt.gcf(): the current figure; with no figure open pyplot creates one.
Gcf(fs) == IF fs = <<>> THEN PltFigure(fs) ELSE fs

\* Drawing calls (ax.bar, sns.heatmap, plt.title, ...) act on the current figure.
Draw(fs, art) == [Gcf(fs) EXCEPT ![Len(Gcf(fs))].art = art]

\* plt.close(): closes the current figure, if any; the one opened before it
\* becomes current.
PltClose(fs) == IF fs = <<>> THEN fs ELSE SubSeq(fs, 1, Len(fs) - 1)

\* plt.close('all')
PltCloseAll(fs) == <<>>

\* The raster plt.savefig writes: the current figure (gcf) at the given dpi.
Png(fs, dpi) == [art |-> Gcf(fs)[Len(Gcf(fs))].art, dpi |-> dpi, format |-> "png"]

\* base64.b64encode(img_buffer.getvalue()).decode('utf-8')
B64Encode(png) == [b64 |-> png]

B64Decode(blob) == blob.b64

\* d[k] = v on a Python dict.
Put(d, k, v) == [x \in (DOMAIN d) \cup {k} |-> IF x = k THEN v ELSE d[x]]

\* Writing `image` to `path` replaces what the path held.
WriteFile(fsys, path, image) == Put(fsys, path, image)

NoFiles == [p \in {} |-> Blank]

\* The empty string a pipeline hands over in place of an image.
NoBlob == [b64 |-> [art |-> [kind |-> "none"], dpi |-> 0, format |-> "none"]]

\* Before any call.
NoCall == [fn |-> "none", error |-> "none"]

\* Every call made from the main thread.
NoThreads == <<>>

\* main not running.
NoBrowser == [pc |-> "none"]

\* The process state a call starts from; the figures already open are marked
\* as not of its making.
Proc == [figs |-> Age(figs), rcParams |-> rcParams, files |-> files]

\* A call is modelled by the set of outcomes [ret, P] it may have: what it
\* returns or raises, and the process state it leaves.  One of them happens.
Happens(outcomes) ==
    \E o \in outcomes :
        /\ ret' = o.ret
        /\ figs' = o.P.figs
        /\ rcParams' = o.P.rcParams
        /\ files' = o.P.files
        /\ UNCHANGED <<threads, browser>>

\* ------------------------------------------------------------------------
\* rate变化图生成.py: plot_rate_changes
\* ------------------------------------------------------------------------
\* Timestamps as the caller passes them.  "" is a missing value (None/NaN),
\* "abc" a string no date parser accepts.
DateStrings == {"2023-01-01", "2023-01-02", "", "abc"}

RateVals == {1480, 1500, 1520}

\* pandas' NaT, and the instants: days since 2022-12-31.
NaT == 0

\* The days the model knows, and how '%m-%d' prints them.
Days == <<"2023-01-01", "2023-01-02", "2023-01-03",
          "2023-01-04", "2023-01-05", "2023-01-06">>

DayLabels == <<"01-01", "01-02", "01-03", "01-04", "01-05", "01-06">>

Parseable(s) == s \in Range(Days) \cup {""}

\* pd.to_datetime of one value that parses.
Instant(s) ==
    IF s \in Range(Days) THEN CHOOSE i \in DOMAIN Days : Days[i] = s ELSE NaT

\* pd.to_datetime(column) with the default errors='raise'.
ToDatetimeRaises(df) == \E i \in DOMAIN df : ~Parseable(df[i].date)

\* sort_values puts NaT last (na_position='last'), ascending or descending.
TimeLeq(a, b, ascending) ==
    b = NaT \/ (a # NaT /\ IF ascending THEN a <= b ELSE a >= b)

\* sort_values uses an unstable sort: rows with equal timestamps may come out
\* in any order.  The set of row orders it may give.
RECURSIVE SortOrders(_, _, _)
SortOrders(key, left, ascending) ==
    IF left = {} THEN {<<>>}
    ELSE UNION { {<<i>> \o s : s \in SortOrders(key, left \ {i}, ascending)} :
                 i \in {j \in left :
                           \A k \in left : TimeLeq(key[j], key[k], ascending)} }

\* The rows of df in the order ord.
Reorder(df, ord) == [i \in DOMAIN df |-> df[ord[i]]]

\* The parsed time column of df.
Times(df) == [i \in DOMAIN df |-> Instant(df[i].date)]

\* Series.dt.strftime('%m-%d')
StrfTime(t) == IF t \in DOMAIN DayLabels THEN DayLabels[t] ELSE "NaN"

\* A slip in the delta: the change since the first row, not the previous one.
RateChangeSinceFirst(rows, i) == IF i = 1 THEN 0 ELSE rows[i].rate - rows[1].rate

\* plot_df[rate_col].diff().fillna(0)
RateChange(rows, i) == IF i = 1 THEN 0 ELSE rows[i].rate - rows[i - 1].rate

\* Lines 41-58: the working table, for one of the orders the sort may give.
\* Positions are 1-based here; the `order` column holds pandas' 0-based index.
PlotDf(df, ord) ==
    LET rows == Reorder(df, ord)
    IN  [i \in DOMAIN df |->
            [time_formatted |-> Instant(rows[i].date),
             rate |-> rows[i].rate,
             order |-> i - 1,
             rate_change |-> RateChange(rows, i),
             date_label |-> StrfTime(Instant(rows[i].date))]]

PlotDfs(df) ==
    {PlotDf(df, ord) : ord \in SortOrders(Times(df), DOMAIN df, TRUE)}

\* Lines 62-74: plt.style.use(...) and plt.rcParams.update(...), with the
\* default font_scale of 2.5.
RateRc == [style |-> "seaborn-v0_8", font_size |-> 25,
           sans_serif |-> "SimHei", unicode_minus |-> FALSE]

\* A float: a number kept as twice its value (a median may end in .5), NaN,
\* or Python's None.
Num(v) == [kind |-> "num", twice |-> 2 * v]

NanFloat == [kind |-> "nan", twice |-> 0]

None == [kind |-> "none", twice |-> 0]

\* `a or b`: b when a is None or 0 (NaN is true in Python).
Or(a, b) == IF a = None \/ a = Num(0) THEN b ELSE a

MinOf(S) == CHOOSE x \in S : \A y \in S : x <= y

RateChanges(plot_df) == [i \in DOMAIN plot_df |-> plot_df[i].rate_change]

\* Every change but zero, whatever its sign.
NonZeroValues(plot_df) == SelectSeq(RateChanges(plot_df), LAMBDA v : v # 0)

\* Lines 92-93: the changes above and below zero.
PositiveValues(plot_df) == SelectSeq(RateChanges(plot_df), LAMBDA v : v > 0)

NegativeValues(plot_df) == SelectSeq(RateChanges(plot_df), LAMBDA v : v < 0)

Count(values, v) == Cardinality({i \in DOMAIN values : values[i] = v})

\* Series.mode(): the values met most often -- every value when none repeats.
Modes(values) ==
    {v \in Range(values) :
        \A w \in Range(values) : Count(values, w) <= Count(values, v)}

\* The reference taken to be the largest of the modes.
GetLargestMode(values) ==
    IF values = <<>> THEN None ELSE Num(MaxOf(Modes(values)))

\* The reference taken to be the smallest value whatever the counts.
GetSmallest(values) ==
    IF values = <<>> THEN None ELSE Num(MinOf(Range(values)))

\* get_mode_pd, lines 81-89: None for an empty series, else modes.iloc[0],
\* the smallest of the modes (Series.mode() sorts them).
GetModePd(values) ==
    IF values = <<>> THEN None ELSE Num(MinOf(Modes(values)))

\* The k-th smallest of values, k counted from 1.
Kth(values, k) ==
    CHOOSE v \in Range(values) :
        /\ Cardinality({i \in DOMAIN values : values[i] < v}) < k
        /\ Cardinality({i \in DOMAIN values : values[i] <= v}) >= k

\* Series.median(): NaN for an empty series.
Median(values) ==
    LET n == Len(values)
    IN  IF n = 0 THEN NanFloat
        ELSE IF n % 2 = 1 THEN Num(Kth(values, (n + 1) \div 2))
        ELSE [kind |-> "num",
              twice |-> Kth(values, n \div 2) + Kth(values, n \div 2 + 1)]

\* Series.min() / Series.max(): NaN for an empty series.
SeriesMin(values) ==
    IF values = <<>> THEN NanFloat ELSE Num(MinOf(Range(values)))

SeriesMax(values) ==
    IF values = <<>> THEN NanFloat ELSE Num(MaxOf(Range(values)))

\* Lines 96-97
PosMode(plot_df) ==
    Or(GetModePd(PositiveValues(plot_df)), Median(PositiveValues(plot_df)))

NegMode(plot_df) ==
    Or(GetModePd(NegativeValues(plot_df)), Median(NegativeValues(plot_df)))

\* Lines 100-101: the ends of plt.Normalize.
Vmin(plot_df) ==
    IF NegativeValues(plot_df) # <<>> THEN NegMode(plot_df)
    ELSE SeriesMin(RateChanges(plot_df))

Vmax(plot_df) ==
    IF PositiveValues(plot_df) # <<>> THEN PosMode(plot_df)
    ELSE SeriesMax(RateChanges(plot_df))

\* plt.Normalize refusing equal ends as well.
NormalizeRaisesWhenEqual(vmin, vmax) ==
    vmin.kind = "num" /\ vmax.kind = "num" /\ vmin.twice >= vmax.twice

\* Lines 103-104: plt.Normalize(vmin, vmax) applied to data raises ValueError
\* when vmin > vmax.
NormalizeRaises(vmin, vmax) ==
    vmin.kind = "num" /\ vmax.kind = "num" /\ vmin.twice > vmax.twice

\* color_norm(x): the position of change x on the scale, the fraction
\* num/den; 0 when the ends are equal, NaN when an end is NaN.
Normalize(vmin, vmax, x) ==
    IF vmin.kind # "num" \/ vmax.kind # "num" THEN [kind |-> "nan", num |-> 0, den |-> 1]
    ELSE IF vmin.twice = vmax.twice THEN [kind |-> "num", num |-> 0, den |-> 1]
    ELSE [kind |-> "num", num |-> 2 * x - vmin.twice, den |-> vmax.twice - vmin.twice]

LutSize == 256                  \* entries of the RdYlGn lookup table

\* plt.cm.RdYlGn(position): the entry of the lookup table, positions below 0
\* and above 1 taking the first and the last entry; -1 for NaN.
LutIndex(pos) ==
    IF pos.kind # "num" THEN -1
    ELSE IF pos.num < 0 THEN 0
    ELSE IF pos.num >= pos.den THEN LutSize - 1
    ELSE (pos.num * LutSize) \div pos.den

\* Line 104: the colour of every bar.
BarColors(plot_df) ==
    [i \in DOMAIN plot_df |->
        LET pos == Normalize(Vmin(plot_df), Vmax(plot_df), plot_df[i].rate_change)
        IN  [position |-> pos, lut |-> LutIndex(pos)]]

\* Rates and changes are fixed-point numbers: the integer v stands for
\* v/PerPoint, a value floats hold exactly.
PerPoint == 16

\* f'{current_value:.1f}': the sign and the tenths shown, the value rounded to
\* the nearest tenth, a tie to the even one.
FormatOneDecimal(v) ==
    LET n == 10 * (IF v < 0 THEN -v ELSE v)
        q == n \div PerPoint
        r == n % PerPoint
    IN  [minus |-> v < 0,
         tenths |-> IF 2 * r < PerPoint THEN q
                    ELSE IF 2 * r > PerPoint THEN q + 1
                    ELSE IF q % 2 = 0 THEN q ELSE q + 1]

\* The interval rounded up instead of down.
LabelIntervalCeil(n, max_bar_labels) ==
    IF (n + max_bar_labels - 1) \div max_bar_labels > 1
    THEN (n + max_bar_labels - 1) \div max_bar_labels ELSE 1

\* Line 120: label_interval = max(1, len(plot_df) // max_bar_labels)
LabelInterval(n, max_bar_labels) ==
    IF n \div max_bar_labels > 1 THEN n \div max_bar_labels ELSE 1

\* Lines 121-151: the loop over the bars from index idx (0-based) on, `seen`
\* the values labelled so far.  The labels ax1.text places.
RECURSIVE BarLabelsFrom(_, _, _, _)
BarLabelsFrom(plot_df, label_interval, idx, seen_values) ==
    IF idx >= Len(plot_df) THEN <<>>
    ELSE LET current_value == plot_df[idx + 1].rate_change
         IN  IF idx % label_interval # 0 \/ current_value \in seen_values
             THEN BarLabelsFrom(plot_df, label_interval, idx + 1, seen_values)
             ELSE << [idx |-> idx, value |-> current_value,
                      va |-> IF current_value > 0 THEN "top" ELSE "bottom",
                      text |-> FormatOneDecimal(current_value)] >>
                  \o BarLabelsFrom(plot_df, label_interval, idx + 1,
                                   seen_values \cup {current_value})

\* The loop skipping a value only when the label before it shows the same
\* value; last is that label's value, as a set.
RECURSIVE SkipRepeatsFrom(_, _, _, _)
SkipRepeatsFrom(plot_df, label_interval, idx, last) ==
    IF idx >= Len(plot_df) THEN <<>>
    ELSE LET current_value == plot_df[idx + 1].rate_change
         IN  IF idx % label_interval # 0 \/ current_value \in last
             THEN SkipRepeatsFrom(plot_df, label_interval, idx + 1, last)
             ELSE << [idx |-> idx, value |-> current_value,
                      va |-> IF current_value > 0 THEN "top" ELSE "bottom",
                      text |-> FormatOneDecimal(current_value)] >>
                  \o SkipRepeatsFrom(plot_df, label_interval, idx + 1, {current_value})

BarLabelsSkipRepeats(plot_df, max_bar_labels) ==
    SkipRepeatsFrom(plot_df, LabelInterval(Len(plot_df), max_bar_labels), 0, {})

BarLabels(plot_df, max_bar_labels) ==
    BarLabelsFrom(plot_df, LabelInterval(Len(plot_df), max_bar_labels), 0, {})

\* The last row holding the extreme.
IdxOfLast(plot_df, value) ==
    MaxOf({i \in DOMAIN plot_df : plot_df[i].rate = value}) - 1

\* Series.idxmax() / idxmin(): the first row holding the extreme, 0-based.
IdxOf(plot_df, value) ==
    MinOf({i \in DOMAIN plot_df : plot_df[i].rate = value}) - 1

\* Lines 168-177: one ax2.annotate, pointing at (idx, value), its text at
\* (idx, value + rate_range*0.1*offset); y10 is ten times that height.
Callout(plot_df, ext_type, value, rate_range, offset) ==
    LET idx == IdxOf(plot_df, value)
    IN  [type |-> ext_type, idx |-> idx, value |-> value,
         xytext |-> [x |-> idx, y10 |-> 10 * value + rate_range * offset]]

\* The callouts drawn whenever there are two rows, whatever the range.
ExtremaCalloutsAnyRange(plot_df) ==
    LET rates == {plot_df[i].rate : i \in DOMAIN plot_df}
    IN  IF Len(plot_df) > 1
        THEN << Callout(plot_df, "max", MaxOf(rates), MaxOf(rates) - MinOf(rates), 1),
                Callout(plot_df, "min", MinOf(rates), MaxOf(rates) - MinOf(rates), -1) >>
        ELSE <<>>

\* Lines 164-177: the callouts ax2.annotate draws.
ExtremaCallouts(plot_df) ==
    LET rates == {plot_df[i].rate : i \in DOMAIN plot_df}
    IN  IF Len(plot_df) > 1 /\ MaxOf(rates) - MinOf(rates) > 0
        THEN << Callout(plot_df, "max", MaxOf(rates), MaxOf(rates) - MinOf(rates), 1),
                Callout(plot_df, "min", MinOf(rates), MaxOf(rates) - MinOf(rates), -1) >>
        ELSE <<>>

MaxTicks == 10                  \* num_ticks = min(n, 10)

\* np.linspace(0, n - 1, num, dtype=int) for num >= 2: num evenly spaced
\* values from 0 to n - 1, cut to integers.
Linspace(n, num) == [i \in 1..num |-> ((i - 1) * (n - 1)) \div (num - 1)]

\* MaxTicks ticks however few the rows.
TickIndicesUncapped(n) == IF n <= 1 THEN <<>> ELSE Linspace(n, MaxTicks)

\* set_smart_ticks, lines 183-191: the tick positions for n rows.
TickIndices(n) ==
    IF n <= 1 THEN <<>>
    ELSE Linspace(n, IF n < MaxTicks THEN n ELSE MaxTicks)

\* Lines 188-190: the ticks and their labels.
SetSmartTicks(plot_df) ==
    LET indices == TickIndices(Len(plot_df))
    IN  [i \in DOMAIN indices |->
            [at |-> indices[i], label |-> plot_df[indices[i] + 1].date_label]]

\* The first change taken from first_rate when one is given.
FirstChangeFromFirstRate(plot_df, first_rate) ==
    IF plot_df # <<>> /\ first_rate # 0
    THEN [plot_df EXCEPT ![1].rate_change = plot_df[1].rate - first_rate]
    ELSE plot_df

\* Lines 53-56: when first_rate is 0 the local first_rate is set to the first
\* rate less the first change; first_rate is not read again, and the working
\* table stays as it is.
AfterFirstRate(plot_df, first_rate) == plot_df

\* What the figure shows.  With max_bar_labels = 0 the call stops at line 120,
\* the bars drawn and nothing else.
RateArt(plot_df, rc, max_bar_labels) ==
    IF max_bar_labels = 0
    THEN [kind |-> "rate", plot_df |-> plot_df, rc |-> rc, complete |-> FALSE,
          vmin |-> Vmin(plot_df), vmax |-> Vmax(plot_df),
          colors |-> BarColors(plot_df),
          labels |-> <<>>, callouts |-> <<>>, ticks |-> <<>>]
    ELSE [kind |-> "rate", plot_df |-> plot_df, rc |-> rc, complete |-> TRUE,
          vmin |-> Vmin(plot_df), vmax |-> Vmax(plot_df),
          colors |-> BarColors(plot_df),
          labels |-> BarLabels(plot_df, max_bar_labels),
          callouts |-> ExtremaCallouts(plot_df),
          ticks |-> SetSmartTicks(plot_df)]

\* plot_rate_changes(df, max_bar_labels=..., first_rate=..., output_file=...)
\* started in process state P.  output_file = "" stands for None.
PlotRateChanges(df, max_bar_labels, first_rate, output_file, P) ==
    IF ToDatetimeRaises(df)
    THEN \* line 42 raises before pyplot is touched
         {[ret |-> [fn |-> "plot_rate_changes", error |-> "ValueError"], P |-> P]}
    ELSE LET opened == PltFigure(PltCloseAll(P.figs))    \* lines 61, 77
             One(plot_df) ==
                 IF NormalizeRaises(Vmin(plot_df), Vmax(plot_df))
                 THEN \* line 103: ValueError, the empty figure left open
                      [ret |-> [fn |-> "plot_rate_changes", error |-> "ValueError"],
                       P |-> [P EXCEPT !.rcParams = RateRc, !.figs = opened]]
                 ELSE IF max_bar_labels = 0
                 THEN \* line 120: len(plot_df) // 0, the figure left open
                      [ret |-> [fn |-> "plot_rate_changes",
                                error |-> "ZeroDivisionError"],
                       P |-> [P EXCEPT
                                !.rcParams = RateRc,
                                !.figs = Draw(opened, RateArt(plot_df, RateRc, 0))]]
                 ELSE LET drawn  == Draw(opened, RateArt(plot_df, RateRc, max_bar_labels))
                          blob   == B64Encode(Png(drawn, 100))    \* lines 199-203
                          closed == PltClose(drawn)               \* line 201
                      IN  [ret |-> [fn |-> "plot_rate_changes",
                                    error |-> "none",
                                    plot_df |-> plot_df,
                                    blob |-> blob],
                           P |-> IF output_file # ""
                                 THEN \* line 207: plt.savefig saves whatever
                                      \* figure is current by now
                                      [rcParams |-> RateRc,
                                       figs |-> Gcf(closed),
                                       files |-> WriteFile(P.files, output_file,
                                                           Png(closed, 150))]
                                 ELSE [P EXCEPT !.rcParams = RateRc,
                                                !.figs = closed]]
         IN  {One(AfterFirstRate(plot_df, first_rate)) : plot_df \in PlotDfs(df)}

\* ------------------------------------------------------------------------
\* 相关系数热力图生成.py: the correlation matrix
\* ------------------------------------------------------------------------
\* The columns a table is made of: three observations each.
Columns == {<<1, 2, 3>>, <<1, 3, 2>>, <<1, 1, 3>>, <<2, 2, 2>>}

\* A table: its columns, and whether their dtype is numeric (a column of
\* strings makes DataFrame.corr raise).
Tables == {[cols |-> c, numeric |-> b] :
              c \in SeqsUpTo(Columns, MaxCols) \ {<<>>}, b \in BOOLEAN}

\* "cosine" is no method DataFrame.corr knows.
Methods == {"pearson", "spearman", "kendall", "cosine"}

\* "nosuch" is no colormap matplotlib knows.
Cmaps == {"coolwarm", "nosuch"}

ValidCmap(cmap) == cmap \in {"coolwarm", "RdBu_r", "viridis"}

Abs(v) == IF v < 0 THEN -v ELSE v

Sgn(v) == IF v < 0 THEN -1 ELSE IF v > 0 THEN 1 ELSE 0

RECURSIVE Gcd(_, _)
Gcd(a, b) == IF b = 0 THEN a ELSE Gcd(b, a % b)

RECURSIVE SumSeq(_)
SumSeq(x) == IF x = <<>> THEN 0 ELSE x[1] + SumSeq(Tail(x))

\* A coefficient r in [-1, 1] is written as the fraction <<p, q>> in lowest
\* terms with p/q = r*|r| (r with its square taken, the sign kept), which
\* needs no square root: 1.0 is <<1, 1>>, -1.0 is <<-1, 1>>, 0.5 is <<1, 4>>.
Coef(p, q) == <<p \div Gcd(Abs(p), q), q \div Gcd(Abs(p), q)>>

NaN == <<0, 0>>

One == <<1, 1>>

IsNaN(c) == c[2] = 0

\* -1 <= r <= 1
InUnitInterval(c) == c[2] > 0 /\ Abs(c[1]) <= c[2]

\* n*n times the covariance of two columns of n observations.
Cov(x, y) ==
    Len(x) * SumSeq([i \in DOMAIN x |-> x[i] * y[i]]) - SumSeq(x) * SumSeq(y)

\* method='pearson'; a constant column has no correlation (NaN).
Pearson(x, y) ==
    IF Cov(x, x) = 0 \/ Cov(y, y) = 0 THEN NaN
    ELSE Coef(Sgn(Cov(x, y)) * Cov(x, y) * Cov(x, y), Cov(x, x) * Cov(y, y))

\* Twice the average rank of each observation.
Rank2(x) ==
    [i \in DOMAIN x |->
        2 * Cardinality({k \in DOMAIN x : x[k] < x[i]})
          + Cardinality({k \in DOMAIN x : x[k] = x[i]}) + 1]

\* method='spearman': Pearson's coefficient of the ranks.
Spearman(x, y) == Pearson(Rank2(x), Rank2(y))

\* method='kendall': tau-b.
Kendall(x, y) ==
    LET pairs == {pr \in (DOMAIN x) \X (DOMAIN x) : pr[1] < pr[2]}
        conc  == Cardinality({pr \in pairs :
                     Sgn(x[pr[1]] - x[pr[2]]) * Sgn(y[pr[1]] - y[pr[2]]) = 1})
        disc  == Cardinality({pr \in pairs :
                     Sgn(x[pr[1]] - x[pr[2]]) * Sgn(y[pr[1]] - y[pr[2]]) = -1})
        untx  == Cardinality({pr \in pairs : x[pr[1]] # x[pr[2]]})
        unty  == Cardinality({pr \in pairs : y[pr[1]] # y[pr[2]]})
    IN  IF untx = 0 \/ unty = 0 THEN NaN
        ELSE Coef(Sgn(conc - disc) * (conc - disc) * (conc - disc), untx * unty)

\* The cells of an n x n matrix, <<row, column>>, counted from 1.
Cells(n) == (1..n) \X (1..n)

\* data.corr(method=method) raises.
CorrRaises(data, method) ==
    method \notin {"pearson", "spearman", "kendall"} \/ ~data.numeric

\* data.corr(method=method) when it does not raise.
DataCorr(data, method) ==
    [c \in Cells(Len(data.cols)) |->
        CASE method = "pearson"  -> Pearson(data.cols[c[1]], data.cols[c[2]])
          [] method = "spearman" -> Spearman(data.cols[c[1]], data.cols[c[2]])
          [] OTHER               -> Kendall(data.cols[c[1]], data.cols[c[2]])]

\* What np.random.uniform(-1, 1) may give: -1.0 (the closed end) and 0.5.
RandomVals == {<<-1, 1>>, <<1, 4>>}

\* Lines 52-53: corr_values[i, i] = 1.0
SetDiagonal(m) == [c \in DOMAIN m |-> IF c[1] = c[2] THEN One ELSE m[c]]

\* The fallback without its symmetrization.
NoSymmetrize(m) == m

\* Lines 55-57: corr_values[j, i] = corr_values[i, j] for j > i
Symmetrize(m) == [c \in DOMAIN m |-> IF c[1] > c[2] THEN m[<<c[2], c[1]>>] ELSE m[c]]

\* generate_correlation_analysis asks for at least this many variables.
MinCorrVars == 3

\* The widest matrix met: MaxCols columns, or the report's MinCorrVars.
MaxDim == IF MaxCols > MinCorrVars THEN MaxCols ELSE MinCorrVars

\* Lines 48-59: the matrices the except branch may build, tabulated by n.
FallbackTable ==
    [n \in 1..MaxDim |->
        {Symmetrize(SetDiagonal(raw)) : raw \in [Cells(n) -> RandomVals]}]

FallbackMatrices(n) == FallbackTable[n]

\* The matrix comes from random draws whether or not the computation failed.
CorrMatricesAllRandom(data, method) ==
    {[fallback |-> CorrRaises(data, method), corr |-> m] :
        m \in FallbackMatrices(Len(data.cols))}

\* Lines 42-59: try: corr = data.corr(method=method) / except: the fallback.
CorrMatrices(data, method) ==
    IF CorrRaises(data, method)
    THEN {[fallback |-> TRUE, corr |-> m] : m \in FallbackMatrices(Len(data.cols))}
    ELSE {[fallback |-> FALSE, corr |-> DataCorr(data, method)]}

\* Lines 61-66: the cells sns.heatmap leaves out (mask None hides nothing).
Mask(n, mask_half, diagonal) ==
    [c \in Cells(n) |->
        mask_half /\ (c[2] > c[1] \/ (c[2] = c[1] /\ diagonal))]

\* title='相关系数热力图', written in ASCII here.
DefaultTitle == "correlation heatmap"

\* Lines 38-40
HeatmapRc(rc) == [rc EXCEPT !.sans_serif = "SimHei", !.unicode_minus = FALSE]

\* generate_correlation_heatmap(data, method, title, cmap, mask_half, diagonal,
\* output_file) started in process state P.
GenerateCorrelationHeatmap(data, method, title, cmap, mask_half, diagonal, output_file, P) ==
    LET n      == Len(data.cols)
        rc     == HeatmapRc(P.rcParams)
        opened == PltFigure(P.figs)                                \* line 69
        call   == [data |-> data, method |-> method, cmap |-> cmap,
                   mask_half |-> mask_half, diagonal |-> diagonal,
                   output_file |-> output_file]
        Outcome(c) ==
            IF ~ValidCmap(cmap)
            THEN \* sns.heatmap raises, the figure left open
                 [ret |-> [fn |-> "generate_correlation_heatmap",
                           error |-> "ValueError",
                           call |-> call,
                           fallback |-> c.fallback,
                           corr_calls |-> <<method>>],
                  P |-> [P EXCEPT !.rcParams = rc, !.figs = opened]]
            ELSE LET drawn  == Draw(opened,
                                    [kind |-> "heatmap", corr |-> c.corr,
                                     mask |-> Mask(n, mask_half, diagonal),
                                     cmap |-> cmap, title |-> title,
                                     method |-> method, rc |-> rc])
                     blob   == B64Encode(Png(drawn, 150))          \* lines 91-95
                     closed == PltClose(drawn)                     \* line 93
                 IN  [ret |-> [fn |-> "generate_correlation_heatmap",
                               error |-> "none",
                               call |-> call,
                               fallback |-> c.fallback,
                               corr_calls |-> <<method>>,
                               blob |-> blob],
                      P |-> IF output_file # ""
                            THEN \* line 99: plt.savefig saves whatever figure
                                 \* is current by now
                                 [rcParams |-> rc,
                                  figs |-> Gcf(closed),
                                  files |-> WriteFile(P.files, output_file,
                                                      Png(closed, 150))]
                            ELSE [P EXCEPT !.rcParams = rc, !.figs = closed]]
    IN  {Outcome(c) : c \in CorrMatrices(data, method)}

\* ------------------------------------------------------------------------
\* 相关系数热力图生成.py: generate_advanced_correlation_heatmap
\* ------------------------------------------------------------------------
\* Lines 126-127: methods=None stands for ['pearson', 'spearman'].
NoMethods == [none |-> TRUE, list |-> <<>>]

MethodLists == {NoMethods} \cup
               {[none |-> FALSE, list |-> l] : l \in SeqsUpTo(Methods, MaxMethods)}

EffectiveMethods(methods) ==
    IF methods.none THEN <<"pearson", "spearman">> ELSE methods.list

\* Line 146: f"{output_file}_{method}.png" if output_file else None
MethodFile(output_file, method) ==
    IF output_file # "" THEN output_file \o "_" \o method \o ".png" ELSE ""

\* The composite drawn for every non-empty method list.
HasCompositeFromOne(methods) == Len(methods) >= 1

\* Line 151: if len(methods) > 1
HasComposite(methods) == Len(methods) > 1

NoImages == [k \in {} |-> NoBlob]

\* Lines 139-148: the loop over the methods from the i-th on; acc is what the
\* loop has built so far. An exception of a call ends the loop and the function.
RECURSIVE PerMethod(_, _, _, _, _, _)
PerMethod(data, methods, cmap, output_file, i, acc) ==
    IF i > Len(methods) \/ acc.error # "none"
    THEN {acc}
    ELSE UNION {
           PerMethod(data, methods, cmap, output_file, i + 1,
                     [error      |-> o.ret.error,
                      images     |-> IF o.ret.error = "none"
                                     THEN Put(acc.images, methods[i], o.ret.blob)
                                     ELSE acc.images,
                      fallbacks  |-> IF o.ret.fallback
                                     THEN acc.fallbacks \cup {methods[i]}
                                     ELSE acc.fallbacks,
                      corr_calls |-> acc.corr_calls \o o.ret.corr_calls,
                      P          |-> o.P]) :
           o \in GenerateCorrelationHeatmap(data, methods[i], DefaultTitle, cmap,
                                            TRUE, FALSE,
                                            MethodFile(output_file, methods[i]),
                                            acc.P) }

\* The first method whose data.corr raises, 0 when none does.
FirstRaising(data, methods) ==
    IF \E i \in DOMAIN methods : CorrRaises(data, methods[i])
    THEN CHOOSE i \in DOMAIN methods :
            /\ CorrRaises(data, methods[i])
            /\ \A j \in 1..(i - 1) : ~CorrRaises(data, methods[j])
    ELSE 0

\* Lines 152-188: the composite of one panel per method. data.corr is called
\* outside any try, so its exception leaves the function, the figure of
\* line 152 still open.
Composite(data, methods, cmap, output_file, acc) ==
    LET n      == Len(data.cols)
        opened == PltFigure(acc.P.figs)                            \* line 152
        k      == FirstRaising(data, methods)
        panels == [i \in DOMAIN methods |->
                      [corr   |-> DataCorr(data, methods[i]),      \* line 155
                       mask   |-> Mask(n, TRUE, TRUE),             \* line 156
                       method |-> methods[i]]]
        drawn  == Draw(opened, [kind |-> "combined", panels |-> panels,
                                cmap |-> cmap, rc |-> acc.P.rcParams])
        blob   == B64Encode(Png(drawn, 150))                       \* lines 178-182
        closed == PltClose(drawn)                                  \* line 180
    IN  IF k # 0
        THEN [acc EXCEPT !.error = "ValueError",
                         !.corr_calls = @ \o SubSeq(methods, 1, k),
                         !.P.figs = opened]
        ELSE IF ~ValidCmap(cmap)
        THEN [acc EXCEPT !.error = "ValueError",
                         !.corr_calls = @ \o SubSeq(methods, 1, 1),
                         !.P.figs = opened]
        ELSE [acc EXCEPT
                !.images = Put(@, "combined", blob),               \* line 184
                !.corr_calls = @ \o methods,
                !.P = IF output_file # ""
                      THEN \* line 188: plt.savefig after plt.close
                           [rcParams |-> acc.P.rcParams,
                            figs |-> Gcf(closed),
                            files |-> WriteFile(acc.P.files,
                                                output_file \o "_combined.png",
                                                Png(closed, 150))]
                      ELSE [acc.P EXCEPT !.figs = closed]]

\* generate_advanced_correlation_heatmap(data, target_variables=None, methods,
\* cmap, output_file) started in process state P.
GenerateAdvancedCorrelationHeatmap(data, methods, cmap, output_file, P) ==
    LET ms     == EffectiveMethods(methods)
        Done(a) == IF a.error = "none" /\ HasComposite(ms)
                   THEN Composite(data, ms, cmap, output_file, a)
                   ELSE a
        Result(a) ==
            IF a.error = "none"
            THEN [fn |-> "generate_advanced_correlation_heatmap",
                  error |-> "none", methods |-> ms, fallbacks |-> a.fallbacks,
                  corr_calls |-> a.corr_calls, images |-> a.images]
            ELSE [fn |-> "generate_advanced_correlation_heatmap",
                  error |-> a.error, methods |-> ms, fallbacks |-> a.fallbacks,
                  corr_calls |-> a.corr_calls]
    IN  {[ret |-> Result(Done(a)), P |-> Done(a).P] :
            a \in PerMethod(data, ms, cmap, output_file, 1,
                            [error |-> "none", images |-> NoImages,
                             fallbacks |-> {}, corr_calls |-> <<>>, P |-> P])}

\* ------------------------------------------------------------------------
\* csv数据分析.py: preprocess_data, generate_pt_rate_changes
\* ------------------------------------------------------------------------
DefaultMaxGames == 200          \* analyze_csv_and_generate_report(max_games=200)

DefaultMaxBarLabels == 15       \* plot_rate_changes(max_bar_labels=15)

\* pd.to_datetime(..., errors='coerce') of one value: what does not parse
\* becomes NaT, a missing value.
ToDatetimeCoerce(s) == IF Parseable(s) THEN s ELSE ""

\* preprocess_data(df, max_games), lines 75-89: coerce the start times, sort
\* most recent first, keep the first max_games rows, sort oldest first.  The
\* tables it may return (the sorts are unstable).
PreprocessData(df, max_games) ==
    LET coerced == [i \in DOMAIN df |->
                       [df[i] EXCEPT !.date = ToDatetimeCoerce(@)]]
        Recent(t) == IF max_games > 0 /\ Len(t) > max_games
                   THEN SubSeq(t, 1, max_games) ELSE t
        recent  == {Recent(Reorder(coerced, o)) :
                       o \in SortOrders(Times(coerced), DOMAIN coerced, FALSE)}
    IN  UNION { {Reorder(t, o) : o \in SortOrders(Times(t), DOMAIN t, TRUE)} :
                t \in recent }

\* DataFrame.dropna() on the (开始时间, R值) columns: rows without a start time go.
DropNa(df) == SelectSeq(df, LAMBDA r : r.date # "")

\* plot_pt_changes lives in pt变化图生成.py: it returns an image or raises, and
\* is taken to leave the figure registry as it found it.
PlotPtChanges == {"image", "raise"}

PtBlob == B64Encode([art |-> [kind |-> "pt"], dpi |-> 100, format |-> "png"])

\* generate_pt_rate_changes(df, player_name), lines 226-272.  has_pt: the table
\* has a 获得pt column.
GeneratePtRateChanges(df, has_pt, P) ==
    LET pt_imgs ==
            IF has_pt /\ DropNa(df) # <<>>
            THEN {IF r = "image" THEN PtBlob ELSE NoBlob : r \in PlotPtChanges}
            ELSE {NoBlob}
        rate_data == DropNa(df)
        rates ==
            IF rate_data # <<>>
            THEN {[img |-> IF o.ret.error = "none" THEN o.ret.blob ELSE NoBlob,
                   error |-> o.ret.error,
                   P |-> o.P] :
                  o \in PlotRateChanges(rate_data, DefaultMaxBarLabels, 0, "", P)}
            ELSE {[img |-> NoBlob, error |-> "no data", P |-> P]}
    IN  {[ret |-> [fn |-> "generate_pt_rate_changes",
                   error |-> "none",
                   pt_img |-> pt,
                   rate_img |-> r.img,
                   rate_data |-> rate_data,
                   rate_error |-> r.error],
          P |-> r.P] : pt \in pt_imgs, r \in rates}

\* ------------------------------------------------------------------------
\* csv数据分析.py: the charts of the report, html网页生成.py: the report
\* ------------------------------------------------------------------------
NumRanks == 4                   \* explode = (0.1, 0, 0, 0) and the four labels

\* generate_rank_distribution_chart(df), lines 274-319.  plt.pie is given one
\* wedge per rank that occurs but four labels and four explode offsets, and
\* raises ValueError unless they agree; the figure of line 291 stays open.
GenerateRankDistributionChart(df, P) ==
    IF df = <<>>
    THEN {[ret |-> [fn |-> "generate_rank_distribution_chart",
                    error |-> "none", blob |-> NoBlob],
           P |-> P]}
    ELSE LET ranks  == {df[i].rank : i \in DOMAIN df}
             counts == [r \in ranks |->
                           Cardinality({i \in DOMAIN df : df[i].rank = r})]
             opened == PltFigure(P.figs)                           \* line 291
             drawn  == Draw(opened, [kind |-> "rank_pie", counts |-> counts,
                                     rc |-> P.rcParams])
         IN  IF Cardinality(ranks) # NumRanks
             THEN {[ret |-> [fn |-> "generate_rank_distribution_chart",
                             error |-> "ValueError"],
                    P |-> [P EXCEPT !.figs = opened]]}
             ELSE {[ret |-> [fn |-> "generate_rank_distribution_chart",
                             error |-> "none",
                             blob |-> B64Encode(Png(drawn, 100))],  \* lines 313-317
                    P |-> [P EXCEPT !.figs = PltClose(drawn)]]}

\* MahjongAnalyzer.analyze lives in 四麻风格分析.py: it returns an image or
\* raises, and is taken to leave the figure registry as it found it.
MahjongAnalyzerAnalyze == {"image", "raise"}

StyleBlob == B64Encode([art |-> [kind |-> "style"], dpi |-> 100, format |-> "png"])

\* Which of the statistic columns generate_correlation_analysis looks for the
\* CSV carries besides 顺位: none, numeric ones, or ones holding text.
StatColumns == {"absent", "numeric", "text"}

\* df[important_vars] when the CSV carries the columns: 顺位, and per game
\* whether it was won (一位率) and whether it ended first or second (吃分率).
CorrelationData(df, stats) ==
    [cols |-> IF stats = "absent"
              THEN << [i \in DOMAIN df |-> df[i].rank] >>
              ELSE << [i \in DOMAIN df |-> df[i].rank],
                      [i \in DOMAIN df |-> IF df[i].rank = 1 THEN 1 ELSE 0],
                      [i \in DOMAIN df |-> IF df[i].rank <= 2 THEN 1 ELSE 0] >>,
     numeric |-> stats # "text"]

\* generate_correlation_analysis(df), lines 321-377: nothing with fewer than
\* three variables; else the three calls inside one try, whose except hands
\* back {} whatever was generated before.  `generated` names the charts whose
\* call returned an image.
GenerateCorrelationAnalysis(df, stats, P) ==
    LET data == CorrelationData(df, stats)
        Nothing(p, error, gen) ==
            [ret |-> [fn |-> "generate_correlation_analysis", error |-> error,
                      images |-> <<>>, generated |-> gen],
             P |-> p]
        first == GenerateCorrelationHeatmap(data, "pearson", "mahjong indicators",
                                            "coolwarm", TRUE, FALSE, "", P)
        Second(p) == GenerateCorrelationHeatmap(data, "spearman",
                                                "mahjong indicators (nonlinear)",
                                                "viridis", TRUE, FALSE, "", p)
        Third(p) == GenerateAdvancedCorrelationHeatmap(
                        data, [none |-> FALSE, list |-> <<"pearson", "spearman">>],
                        "RdBu_r", "", p)
        firstOk == {o \in first : o.ret.error = "none"}
        seconds == UNION { LET s == Second(p)
                           IN  {[b1 |-> o1.ret.blob, o2 |-> o2] :
                                   o1 \in {x \in firstOk : x.P = p}, o2 \in s} :
                           p \in {o.P : o \in firstOk} }
        secondOk == {x \in seconds : x.o2.ret.error = "none"}
        thirds == UNION { LET t == Third(p)
                          IN  {[b1 |-> x.b1, b2 |-> x.o2.ret.blob, o3 |-> o3] :
                                  x \in {y \in secondOk : y.o2.P = p}, o3 \in t} :
                          p \in {x.o2.P : x \in secondOk} }
        Dict(x) == << [name |-> "pearson_heatmap", blob |-> x.b1],
                      [name |-> "spearman_heatmap", blob |-> x.b2],
                      [name |-> "combined_heatmap",
                       blob |-> IF "combined" \in DOMAIN x.o3.ret.images
                                THEN x.o3.ret.images["combined"]
                                ELSE NoBlob] >>
    IN  IF df = <<>> \/ Len(data.cols) < MinCorrVars                \* lines 332, 343
        THEN {Nothing(P, "no data", {})}
        ELSE {Nothing(o.P, "caught", {}) : o \in first \ firstOk}
             \cup {Nothing(x.o2.P, "caught", {"pearson_heatmap"}) :
                      x \in seconds \ secondOk}
             \cup {IF x.o3.ret.error # "none"
                   THEN Nothing(x.o3.P, "caught",
                                {"pearson_heatmap", "spearman_heatmap"})
                   ELSE [ret |-> [fn |-> "generate_correlation_analysis",
                                  error |-> "none",
                                  images |-> Dict(x),
                                  generated |-> {"pearson_heatmap",
                                                 "spearman_heatmap",
                                                 "combined_heatmap"}],
                         P |-> x.o3.P] :
                   x \in thirds}

\* Line 18 of html网页生成.py: the images that are not empty.
FilteredImages(image_base64_dict) ==
    SelectSeq(image_base64_dict, LAMBDA e : e.blob # NoBlob)

\* generate_html_report: one tab button (lines 616-626) and one chart section
\* (lines 635-650) per image kept, in the dict's order.
HtmlReport(image_base64_dict) ==
    LET filtered_images == FilteredImages(image_base64_dict)
    IN  [kind |-> "html",
         tabs |-> [i \in DOMAIN filtered_images |-> filtered_images[i].name],
         sections |-> [i \in DOMAIN filtered_images |->
                          [id |-> filtered_images[i].name,
                           img |-> filtered_images[i].blob]]]

ReportPath == "report.html"

\* analyze_csv_and_generate_report from line 408 on, for one table
\* preprocess_data may have returned.
ReportOn(processed_df, has_pt, stats, P) ==
    LET fn == "analyze_csv_and_generate_report"
        Blobs(ok, blob) == IF ok THEN blob ELSE NoBlob
        Assemble(rank, style, ptr, corr) ==
            LET image_base64_dict ==                               \* lines 489-499
                    << [name |-> "style", blob |-> Blobs(style = "image", StyleBlob)],
                       [name |-> "rank", blob |-> rank.ret.blob],
                       [name |-> "pt", blob |-> ptr.ret.pt_img],
                       [name |-> "rate", blob |-> ptr.ret.rate_img] >>
                    \o FilteredImages(corr.ret.images)
            IN  [ret |-> [fn |-> fn, error |-> "none", report |-> ReportPath,
                          handed |-> image_base64_dict,
                          failed |->
                              (IF style = "raise" THEN {"style"} ELSE {})
                              \cup (IF ptr.ret.pt_img = NoBlob THEN {"pt"} ELSE {})
                              \cup (IF ptr.ret.rate_img = NoBlob THEN {"rate"} ELSE {})
                              \cup (IF corr.ret.error # "none"
                                    THEN {"pearson_heatmap", "spearman_heatmap",
                                          "combined_heatmap"}
                                    ELSE {}),
                          generated |->
                              {"rank"}
                              \cup (IF style = "image" THEN {"style"} ELSE {})
                              \cup (IF ptr.ret.pt_img # NoBlob THEN {"pt"} ELSE {})
                              \cup (IF ptr.ret.rate_img # NoBlob THEN {"rate"} ELSE {})
                              \cup corr.ret.generated],
                 P |-> [corr.P EXCEPT
                          !.files = WriteFile(@, ReportPath,       \* lines 780-781
                                              HtmlReport(image_base64_dict))]]
        AfterRank(rank) ==
            LET ptrs == GeneratePtRateChanges(processed_df, has_pt, rank.P)
            IN  UNION { LET corrs == GenerateCorrelationAnalysis(processed_df, stats, p)
                        IN  {Assemble(rank, style, ptr, corr) :
                                style \in MahjongAnalyzerAnalyze,
                                ptr \in {x \in ptrs : x.P = p},
                                corr \in corrs} :
                        p \in {x.P : x \in ptrs} }
    IN  IF processed_df = <<>>
        THEN \* lines 409-411: return None
             {[ret |-> [fn |-> fn, error |-> "none", report |-> ""], P |-> P]}
        ELSE UNION { IF rank.ret.error # "none"
                     THEN \* line 435 is in no try: the exception leaves the function
                          {[ret |-> [fn |-> fn, error |-> rank.ret.error,
                                     report |-> ""],
                            P |-> rank.P]}
                     ELSE AfterRank(rank) :
                     rank \in GenerateRankDistributionChart(processed_df, P) }

\* analyze_csv_and_generate_report(csv_file_path, max_games=200) on a CSV that
\* loads as df (with or without a 获得pt column) started in process state P.
AnalyzeCsvAndGenerateReport(df, has_pt, stats, P) ==
    UNION { ReportOn(processed_df, has_pt, stats, P) :
              processed_df \in PreprocessData(df, DefaultMaxGames) }

\* ------------------------------------------------------------------------
\* The rate chart alone: Init draws the table and the options.
\* ------------------------------------------------------------------------
RateTables == SeqsUpTo([date : DateStrings, rate : RateVals], MaxLen)

InitRate ==
    /\ args \in [df : RateTables,
                 max_bar_labels : 0..MaxBarLabels,
                 first_rate : {0, 1500}]
    /\ figs = <<>>
    /\ rcParams = DefaultRc
    /\ files = NoFiles
    /\ ret = NoCall
    /\ prev = NoCall
    /\ threads = NoThreads
    /\ browser = NoBrowser

\* Under SpecRate the call under study is made once, in a fresh process.
CallPlotRateChanges ==
    /\ ret = NoCall
    /\ Happens(PlotRateChanges(args.df, args.max_bar_labels, args.first_rate,
                               "", Proc))
    /\ UNCHANGED <<args, prev>>

\* generate_pt_rate_changes passes no first_rate: the chart it asks for is
\* drawn with the default, 0.
CallGeneratePtRateChanges ==
    /\ ret = NoCall
    /\ args.first_rate = 0
    /\ \E processed \in PreprocessData(args.df, DefaultMaxGames), has_pt \in BOOLEAN :
           Happens(GeneratePtRateChanges(processed, has_pt, Proc))
    /\ UNCHANGED <<args, prev>>

NextRate == CallPlotRateChanges \/ CallGeneratePtRateChanges

SpecRate == InitRate /\ [][NextRate]_vars

\* ------------------------------------------------------------------------
\* The heatmap alone: Init draws the table, the method and the options; the
\* call may be repeated.
\* ------------------------------------------------------------------------
InitCorr ==
    /\ args \in [data : Tables,
                 method : Methods,
                 cmap : Cmaps,
                 mask_half : BOOLEAN,
                 diagonal : BOOLEAN,
                 output_file : {"", "heatmap.png"}]
    /\ figs = <<>>
    /\ rcParams = DefaultRc
    /\ files = NoFiles
    /\ ret = NoCall
    /\ prev = NoCall
    /\ threads = NoThreads
    /\ browser = NoBrowser

CallGenerateCorrelationHeatmap ==
    /\ Len(figs) < MaxFigs
    /\ Happens(GenerateCorrelationHeatmap(args.data, args.method, DefaultTitle,
                                          args.cmap, args.mask_half, args.diagonal,
                                          args.output_file, Proc))
    /\ prev' = ret
    /\ UNCHANGED args

NextCorr == CallGenerateCorrelationHeatmap

SpecCorr == InitCorr /\ [][NextCorr]_vars

\* ------------------------------------------------------------------------
\* The multi-method heatmaps alone: Init draws the table, the method list and
\* the options; one call.
\* ------------------------------------------------------------------------
\* The tables of the multi-method calls: columns with and without ties.
AdvTables ==
    {t \in Tables :
        \A i \in DOMAIN t.cols : t.cols[i] \in {<<1, 2, 3>>, <<1, 1, 3>>}}

InitAdv ==
    /\ args \in [data : AdvTables,
                 methods : MethodLists,
                 cmap : Cmaps,
                 output_file : {"", "advanced"}]
    /\ figs = <<>>
    /\ rcParams = DefaultRc
    /\ files = NoFiles
    /\ ret = NoCall
    /\ prev = NoCall
    /\ threads = NoThreads
    /\ browser = NoBrowser

CallGenerateAdvancedCorrelationHeatmap ==
    /\ ret = NoCall
    /\ Happens(GenerateAdvancedCorrelationHeatmap(args.data, args.methods,
                                                  args.cmap, args.output_file,
                                                  Proc))
    /\ UNCHANGED <<args, prev>>

NextAdv == CallGenerateAdvancedCorrelationHeatmap

SpecAdv == InitAdv /\ [][NextAdv]_vars

\* ------------------------------------------------------------------------
\* One Python process making chart calls one after another: the figure
\* registry, rcParams and the files outlive each call.
\* ------------------------------------------------------------------------
\* The tables the calls are made with.
ProcRateTables == {<<[date |-> "2023-01-02", rate |-> 1500],
                     [date |-> "2023-01-01", rate |-> 1480]>>,
                   <<[date |-> "abc", rate |-> 1500]>>}

ProcTables == {[cols |-> <<<<1, 2, 3>>, <<1, 1, 3>>>>, numeric |-> b] :
                  b \in BOOLEAN}

ProcMethodLists == {NoMethods,
                    [none |-> FALSE, list |-> <<>>],
                    [none |-> FALSE, list |-> <<"kendall">>]}

Init ==
    /\ args = [fn |-> "none", output_file |-> ""]
    /\ figs = <<>>
    /\ rcParams = DefaultRc
    /\ files = NoFiles
    /\ ret = NoCall
    /\ prev = NoCall
    /\ threads = NoThreads
    /\ browser = NoBrowser

PlotRateChangesCall ==
    /\ Len(figs) < MaxFigs
    /\ \E df \in ProcRateTables, max_bar_labels \in {0, DefaultMaxBarLabels},
          output_file \in {"", "rate.png"} :
          /\ Happens(PlotRateChanges(df, max_bar_labels, 0, output_file, Proc))
          /\ args' = [fn |-> "plot_rate_changes", df |-> df,
                      max_bar_labels |-> max_bar_labels,
                      output_file |-> output_file]
    /\ UNCHANGED prev

GenerateCorrelationHeatmapCall ==
    /\ Len(figs) < MaxFigs
    /\ \E data \in ProcTables, cmap \in Cmaps,
          output_file \in {"", "heatmap.png"} :
          /\ Happens(GenerateCorrelationHeatmap(data, "pearson", DefaultTitle,
                                                cmap, TRUE, FALSE, output_file,
                                                Proc))
          /\ args' = [fn |-> "generate_correlation_heatmap", data |-> data,
                      cmap |-> cmap, output_file |-> output_file]
    /\ UNCHANGED prev

GenerateAdvancedCorrelationHeatmapCall ==
    /\ Len(figs) < MaxFigs
    /\ \E data \in ProcTables, methods \in ProcMethodLists, cmap \in Cmaps,
          output_file \in {"", "advanced"} :
          /\ Happens(GenerateAdvancedCorrelationHeatmap(data, methods, cmap,
                                                        output_file, Proc))
          /\ args' = [fn |-> "generate_advanced_correlation_heatmap",
                      data |-> data, methods |-> methods, cmap |-> cmap,
                      output_file |-> output_file]
    /\ UNCHANGED prev

Next ==
    \/ PlotRateChangesCall
    \/ GenerateCorrelationHeatmapCall
    \/ GenerateAdvancedCorrelationHeatmapCall

Spec == Init /\ [][Next]_vars

\* ------------------------------------------------------------------------
\* The report alone: Init draws the CSV; one call, in a process that has just
\* imported csv数据分析.py (whose lines 20-21 set the font).
\* ------------------------------------------------------------------------
ReportRows == [date : {"2023-01-02", ""}, rate : {1500}, rank : 1..NumRanks]

ReportTables == SeqsUpTo(ReportRows, MaxGames)

InitReport ==
    /\ args \in [df : ReportTables, has_pt : BOOLEAN, stats : StatColumns]
    /\ figs = <<>>
    /\ rcParams = HeatmapRc(DefaultRc)
    /\ files = NoFiles
    /\ ret = NoCall
    /\ prev = NoCall
    /\ threads = NoThreads
    /\ browser = NoBrowser

AnalyzeCsvAndGenerateReportCall ==
    /\ ret = NoCall
    /\ Happens(AnalyzeCsvAndGenerateReport(args.df, args.has_pt, args.stats, Proc))
    /\ UNCHANGED <<args, prev>>

NextReport == AnalyzeCsvAndGenerateReportCall

SpecReport == InitReport /\ [][NextReport]_vars

\* ------------------------------------------------------------------------
\* The rate chart of a series given in time order, one row a day: Init draws
\* the values and max_bar_labels; one call.
\* ------------------------------------------------------------------------
ChartRates == {1480, 1490, 1500, 1520, 1540, 1580}

ChartTables ==
    {[i \in DOMAIN r |-> [date |-> Days[i], rate |-> r[i]]] :
        r \in SeqsUpTo(ChartRates, MaxSeries)}

InitChart ==
    /\ args \in [df : ChartTables, max_bar_labels : 0..MaxBarLabels]
    /\ figs = <<>>
    /\ rcParams = DefaultRc
    /\ files = NoFiles
    /\ ret = NoCall
    /\ prev = NoCall
    /\ threads = NoThreads
    /\ browser = NoBrowser

ChartSeries ==
    /\ ret = NoCall
    /\ Happens(PlotRateChanges(args.df, args.max_bar_labels, 0, "", Proc))
    /\ UNCHANGED <<args, prev>>

NextChart == ChartSeries

SpecChart == InitChart /\ [][NextChart]_vars

\* ------------------------------------------------------------------------
\* set_smart_ticks alone: Init draws the number of rows; the ticks are
\* sampled once.
\* ------------------------------------------------------------------------
\* A working table of n rows of one day and one value.
LongPlotDf(n) ==
    PlotDf([i \in 1..n |-> [date |-> Days[1], rate |-> 1500]], [i \in 1..n |-> i])

InitTicks ==
    /\ args \in [n : 0..MaxTickRows]
    /\ figs = <<>>
    /\ rcParams = DefaultRc
    /\ files = NoFiles
    /\ ret = NoCall
    /\ prev = NoCall
    /\ threads = NoThreads
    /\ browser = NoBrowser

CallSetSmartTicks ==
    /\ ret = NoCall
    /\ ret' = [fn |-> "set_smart_ticks", error |-> "none",
               ticks |-> SetSmartTicks(LongPlotDf(args.n))]
    /\ UNCHANGED <<args, figs, rcParams, files, prev, threads, browser>>

NextTicks == CallSetSmartTicks

SpecTicks == InitTicks /\ [][NextTicks]_vars

\* ------------------------------------------------------------------------
\* Claims about the rate chart (under SpecRate)
\* ------------------------------------------------------------------------
\* Every row of df carries a timestamp that parses to an instant.
AllInstants(df) == \A i \in DOMAIN df : Parseable(df[i].date) /\ df[i].date # ""

\* C1: when every timestamp parses, plot_rate_changes works on the input rows
\* sorted ascending by timestamp -- as many rows, each (timestamp, value) pair
\* as often as in the input -- with order[i] = i, delta[0] = 0 and
\* delta[i] = value[i] - value[i-1] for i >= 1.
C1_SortedSeriesWithDeltas ==
    (ret.fn = "plot_rate_changes" /\ AllInstants(args.df)
        /\ args.max_bar_labels >= 1) =>
    /\ ret.error = "none"
    /\ LET s == ret.plot_df
           n == Len(args.df)
       IN  /\ Len(s) = n
           /\ \A i \in 1..n : s[i].order = i - 1
           /\ \A i \in 1..(n - 1) : s[i].time_formatted <= s[i + 1].time_formatted
           /\ \A r \in Range(args.df) :
                 Cardinality({i \in 1..n : args.df[i] = r})
                   = Cardinality({i \in 1..n :
                        s[i].time_formatted = Instant(r.date) /\ s[i].rate = r.rate})
           /\ n >= 1 => s[1].rate_change = 0
           /\ \A i \in 2..n : s[i].rate_change = s[i].rate - s[i - 1].rate

\* C1's case: three rows given out of order, two of them with the same
\* timestamp, with three different values.
C1_Witness ==
    /\ ret.fn = "plot_rate_changes"
    /\ ret.error = "none"
    /\ AllInstants(args.df)
    /\ Len(args.df) = 3
    /\ args.df[1].date = "2023-01-02"
    /\ args.df[2].date = "2023-01-01"
    /\ args.df[3].date = "2023-01-02"
    /\ Cardinality({args.df[i].rate : i \in 1..3}) = 3
    /\ ret.plot_df[3].rate_change # 0

\* C2: a row whose timestamp cannot be parsed does not make plot_rate_changes
\* fail; the chart is built from the rows that remain.
C2_UnparsableRowsAreDropped ==
    (ret.fn = "plot_rate_changes" /\ args.max_bar_labels >= 1) =>
    /\ ret.error = "none"
    /\ ret.plot_df \in PlotDfs(SelectSeq(args.df, LAMBDA r : Parseable(r.date)))

\* ------------------------------------------------------------------------
\* Claims about generate_correlation_heatmap (under SpecCorr)
\* ------------------------------------------------------------------------
\* The matrix in the image a call returned.
RenderedCorr(r) == B64Decode(r.blob).art.corr

HeatmapReturned(r) == r.fn = "generate_correlation_heatmap" /\ r.error = "none"

\* C3: when data.corr raises, generate_correlation_heatmap does not raise for
\* that reason, and the matrix it renders is n x n over the input columns,
\* 1.0 on the diagonal, within [-1, 1] off it, and symmetric.
C3_FallbackMatrixIsValid ==
    (ret.fn = "generate_correlation_heatmap"
        /\ CorrRaises(args.data, args.method)) =>
    /\ ret.fallback
    /\ ValidCmap(args.cmap) => ret.error = "none"
    /\ ret.error = "none" =>
          LET m == RenderedCorr(ret)
          IN  /\ DOMAIN m = Cells(Len(args.data.cols))
              /\ \A c \in DOMAIN m :
                    /\ c[1] = c[2] => m[c] = One
                    /\ InUnitInterval(m[c])
                    /\ m[c] = m[<<c[2], c[1]>>]

\* C3's case: a two-column table whose correlation cannot be computed, drawn
\* from the fallback with 0.5 off the diagonal.
C3_Witness ==
    /\ HeatmapReturned(ret)
    /\ CorrRaises(args.data, args.method)
    /\ Len(args.data.cols) = 2
    /\ RenderedCorr(ret)[<<1, 2>>] = <<1, 4>>
    /\ RenderedCorr(ret)[<<2, 1>>] = <<1, 4>>

\* C10 as stated: two calls with the same table and method render the same
\* matrix, on the computed path and on the fallback path alike.
C10_SameCallSameMatrix ==
    (HeatmapReturned(ret) /\ HeatmapReturned(prev)) =>
        RenderedCorr(ret) = RenderedCorr(prev)

\* C10 as amended: two calls with the same table and method take the same
\* path; on the computed path they render the same matrix, on the fallback
\* path matrices of the same shape with the same (unit) diagonal.
C10_ComputedPathDeterministic ==
    (HeatmapReturned(ret) /\ HeatmapReturned(prev)) =>
    /\ ret.fallback = prev.fallback
    /\ ~ret.fallback => RenderedCorr(ret) = RenderedCorr(prev)
    /\ ret.fallback =>
          /\ DOMAIN RenderedCorr(ret) = DOMAIN RenderedCorr(prev)
          /\ \A c \in DOMAIN RenderedCorr(ret) :
                c[1] = c[2] => RenderedCorr(ret)[c] = RenderedCorr(prev)[c]

\* C10's case: the second of two calls on a table whose Pearson matrix is
\* computed, with a coefficient that is neither 0 nor +-1.
C10_Witness ==
    /\ HeatmapReturned(ret)
    /\ HeatmapReturned(prev)
    /\ ~ret.fallback
    /\ Len(args.data.cols) = 2
    /\ RenderedCorr(prev)[<<1, 2>>] = <<3, 4>>

\* ------------------------------------------------------------------------
\* Claims about generate_advanced_correlation_heatmap (under SpecAdv)
\* ------------------------------------------------------------------------
AdvancedCalled == ret.fn = "generate_advanced_correlation_heatmap"

Requested == EffectiveMethods(args.methods)

\* C4: when data.corr fails for some requested method, the call still returns
\* normally, with one image per method and, for two or more methods, the
\* combined image.
C4_CorrelationFailureNeverPropagates ==
    (/\ AdvancedCalled
     /\ ValidCmap(args.cmap)
     /\ \E i \in DOMAIN Requested : CorrRaises(args.data, Requested[i])) =>
    /\ ret.error = "none"
    /\ Range(Requested) \subseteq DOMAIN ret.images
    /\ Len(Requested) >= 2 => "combined" \in DOMAIN ret.images

\* C5: the mapping returned has exactly the requested method names as keys,
\* and the key "combined" besides them exactly when at least two methods were
\* requested.
C5_KeysAreMethodsAndCombined ==
    (AdvancedCalled /\ ret.error = "none") =>
        DOMAIN ret.images =
            Range(Requested) \cup
            (IF Len(Requested) >= 2 THEN {"combined"} ELSE {})

\* C5's case: two different methods requested explicitly, three images
\* returned.
C5_Witness ==
    /\ AdvancedCalled
    /\ ret.error = "none"
    /\ ~args.methods.none
    /\ Len(Requested) = 2
    /\ Requested[1] # Requested[2]
    /\ DOMAIN ret.images = {Requested[1], Requested[2], "combined"}

\* ------------------------------------------------------------------------
\* Claims about the chart calls in one process (under Spec)
\* ------------------------------------------------------------------------
ChartReturned == ret.fn # "none" /\ ret.error = "none"

\* The chart an image shows.
Chart(png) == png.art

\* C6: when output_file is given, the image written to the path shows the
\* chart of the returned blob (for the multi-method call: every path it
\* writes shows the chart of the blob returned under that key).
C6_FileShowsReturnedChart ==
    (ChartReturned /\ args.output_file # "") =>
        IF ret.fn = "generate_advanced_correlation_heatmap"
        THEN \A k \in DOMAIN ret.images :
                LET path == args.output_file \o "_" \o k \o ".png"
                IN  /\ path \in DOMAIN files
                    /\ Chart(files[path]) = Chart(B64Decode(ret.images[k]))
        ELSE /\ args.output_file \in DOMAIN files
             /\ Chart(files[args.output_file]) = Chart(B64Decode(ret.blob))

\* C7: after a chart call has returned or raised, no figure the call opened
\* is in the figure registry.
C7_NoFigureOfTheCallLeftOpen ==
    ret.fn # "none" => \A i \in DOMAIN figs : ~figs[i].fresh

\* ------------------------------------------------------------------------
\* Claims about the report (under SpecReport)
\* ------------------------------------------------------------------------
ReportCalled == ret.fn = "analyze_csv_and_generate_report"

\* The names of the chart sections of the report written.
ReportCharts ==
    {files[ReportPath].sections[i].id : i \in DOMAIN files[ReportPath].sections}

\* C8: on a CSV with games, whichever chart fails, the report is written and
\* holds every chart that was generated.
C8_ChartFailureDoesNotAbortReport ==
    (ReportCalled /\ args.df # <<>>) =>
        /\ ret.error = "none"
        /\ ret.report = ReportPath
        /\ ReportPath \in DOMAIN files
        /\ ret.generated \subseteq ReportCharts

\* C9: on a CSV with games, every pipeline that failed or had no data hands
\* the report assembly an empty value, and the report written has a tab and a
\* section for exactly the charts whose blob is not empty.
C9_FailedPipelinesHandEmptyValues ==
    (ReportCalled /\ args.df # <<>>) =>
        /\ ret.error = "none"
        /\ \A i \in DOMAIN ret.handed :
              ret.handed[i].name \in ret.failed => ret.handed[i].blob = NoBlob
        /\ ReportPath \in DOMAIN files
        /\ LET kept == {i \in DOMAIN ret.handed : ret.handed[i].blob # NoBlob}
               html == files[ReportPath]
           IN  /\ Range(html.tabs) = {ret.handed[i].name : i \in kept}
               /\ Len(html.tabs) = Cardinality(kept)
               /\ {[id |-> ret.handed[i].name, img |-> ret.handed[i].blob] :
                      i \in kept} = Range(html.sections)
               /\ Len(html.sections) = Cardinality(kept)

\* ------------------------------------------------------------------------
\* Claims about what the rate chart shows (under SpecChart)
\* ------------------------------------------------------------------------
\* The chart in the image plot_rate_changes returned.
RateChart == B64Decode(ret.blob).art

RateReturned == ret.fn = "plot_rate_changes" /\ ret.error = "none"

\* The changes of the series charted, in time order.
Deltas == [i \in DOMAIN ret.plot_df |-> ret.plot_df[i].rate_change]

Positives == SelectSeq(Deltas, LAMBDA v : v > 0)

Negatives == SelectSeq(Deltas, LAMBDA v : v < 0)

NoneRepeats(values) == \A v \in Range(values) : Count(values, v) = 1

\* C13: for a series of length 0 or 1, plot_rate_changes places no bar label
\* and no extrema callout.
C13_ShortSeriesHaveNoAnnotation ==
    (RateReturned /\ Len(args.df) <= 1) =>
        /\ RateChart.labels = <<>>
        /\ RateChart.callouts = <<>>

\* C14: for a series whose values are all equal, of any length, the call does
\* not fail and no extrema callout is drawn.
C14_ConstantSeriesHasNoCallout ==
    (ret.fn = "plot_rate_changes" /\ args.max_bar_labels >= 1
        /\ \A i, j \in DOMAIN args.df : args.df[i].rate = args.df[j].rate) =>
        /\ ret.error = "none"
        /\ RateChart.callouts = <<>>

\* C14's case: a chart returned for three rows of one value.
C14_Witness ==
    /\ RateReturned
    /\ Len(args.df) = 3
    /\ \A i \in DOMAIN args.df : args.df[i].rate = 1500
    /\ RateChart.callouts = <<>>

\* C16: when the changes hold a value above zero and a value below zero, the
\* ends of the colour scale satisfy vmin <= 0 <= vmax.
C16_ScaleStraddlesZero ==
    (RateReturned /\ (\E i \in DOMAIN Deltas : Deltas[i] > 0)
                  /\ (\E i \in DOMAIN Deltas : Deltas[i] < 0)) =>
        /\ RateChart.vmin.kind = "num" /\ RateChart.vmin.twice <= 0
        /\ RateChart.vmax.kind = "num" /\ RateChart.vmax.twice >= 0

\* C16's case: a chart returned for a series that falls twice by the same
\* amount and rises once.
C16_Witness ==
    /\ RateReturned
    /\ Deltas = <<0, -20, -20, 40>>
    /\ RateChart.vmin = Num(-20)
    /\ RateChart.vmax = Num(40)

\* C17: for every series and every max_bar_labels >= 1, the chart has at most
\* max_bar_labels bar labels.
C17_AtMostMaxBarLabels ==
    (RateReturned /\ args.max_bar_labels >= 1) =>
        Len(RateChart.labels) <= args.max_bar_labels

\* C19: when no change above zero (below zero) occurs more than once, the
\* positive (negative) end of the colour scale is the median of those changes.
C19_MedianWhenNoneRepeats ==
    RateReturned =>
        /\ (Positives # <<>> /\ NoneRepeats(Positives)) =>
               RateChart.vmax = Median(Positives)
        /\ (Negatives # <<>> /\ NoneRepeats(Negatives)) =>
               RateChart.vmin = Median(Negatives)

\* C20: when one change above zero m occurs more often than every other and
\* more than once, the positive end of the colour scale is m.
C20_RepeatedModeIsVmax ==
    RateReturned =>
        \A m \in Range(Positives) :
            (/\ Count(Positives, m) > 1
             /\ \A w \in Range(Positives) \ {m} :
                   Count(Positives, w) < Count(Positives, m)) =>
                RateChart.vmax = Num(m)

\* C20's case: a chart returned for a series that rises by 40 twice and by 20
\* once, 20 being the smallest rise and 40 the most frequent.
C20_Witness ==
    /\ RateReturned
    /\ Deltas = <<0, 40, 20, 40>>
    /\ RateChart.vmax = Num(40)

\* ------------------------------------------------------------------------
\* Claims about set_smart_ticks (under SpecTicks)
\* ------------------------------------------------------------------------
\* The tick positions set, in the order given to set_xticks.
TicksAt == [i \in DOMAIN ret.ticks |-> ret.ticks[i].at]

\* C15: for N >= 2 rows set_smart_ticks sets exactly min(N, 10) ticks, strictly
\* increasing (so pairwise distinct), within 0..N-1, the first at 0 and the
\* last at N-1; for N <= 1 it sets no tick.
C15_TicksSpanTheSeries ==
    ret.fn = "set_smart_ticks" =>
        LET N == args.n
            t == TicksAt
        IN  IF N <= 1 THEN t = <<>>
            ELSE /\ Len(t) = (IF N < 10 THEN N ELSE 10)
                 /\ \A i \in 1..(Len(t) - 1) : t[i] < t[i + 1]
                 /\ \A i \in DOMAIN t : t[i] \in 0..(N - 1)
                 /\ t[1] = 0
                 /\ t[Len(t)] = N - 1

\* C15's case: the ticks of 25 rows, where the even spacing 24/9 is cut to
\* integers.
C15_Witness ==
    /\ ret.fn = "set_smart_ticks"
    /\ args.n = 25
    /\ TicksAt = <<0, 2, 5, 8, 10, 13, 16, 18, 21, 24>>

\* ------------------------------------------------------------------------
\* Claims about the cells the heatmap hides (under SpecCorr)
\* ------------------------------------------------------------------------
\* The cells left out of the image a call returned.
HiddenCells(r) == B64Decode(r.blob).art.mask

\* C18: cell (i, j) of the heatmap is hidden if and only if mask_half is true
\* and j > i, or diagonal is false and i = j: the diagonal is shown exactly
\* when diagonal is true and no cell below the diagonal is hidden.
C18_FlagsActIndependently ==
    HeatmapReturned(ret) =>
        \A c \in DOMAIN HiddenCells(ret) :
            HiddenCells(ret)[c] <=>
                \/ args.mask_half /\ c[2] > c[1]
                \/ ~args.diagonal /\ c[1] = c[2]

\* ------------------------------------------------------------------------
\* Claims about chart calls one after another (under Spec)
\* ------------------------------------------------------------------------
\* A process in which no chart call has run.
FreshProc == [figs |-> <<>>, rcParams |-> DefaultRc, files |-> NoFiles]

\* What the last call may return when it is the first chart call of its
\* process.
ReturnsAlone ==
    CASE args.fn = "plot_rate_changes" ->
            {o.ret : o \in PlotRateChanges(args.df, args.max_bar_labels, 0,
                                           args.output_file, FreshProc)}
      [] args.fn = "generate_correlation_heatmap" ->
            {o.ret : o \in GenerateCorrelationHeatmap(args.data, "pearson",
                               DefaultTitle, args.cmap, TRUE, FALSE,
                               args.output_file, FreshProc)}
      [] OTHER ->
            {o.ret : o \in GenerateAdvancedCorrelationHeatmap(args.data,
                               args.methods, args.cmap, args.output_file,
                               FreshProc)}

\* C11: the order of chart calls is irrelevant: whatever chart calls ran
\* before it, a call returns what it returns as the first call of a process,
\* its output depending on its own arguments only.
C11_OrderOfCallsIrrelevant == ret.fn # "none" => ret \in ReturnsAlone

\* ------------------------------------------------------------------------
\* Two chart calls in two threads of one process.  Neither function takes a
\* lock, so the threads may switch between any two pyplot calls; each action
\* is one thread's next stretch of code up to its next pyplot call.  Init
\* draws each thread's call.
\* ------------------------------------------------------------------------
Threads == {"t1", "t2"}

ThreadCalls ==
    {[fn |-> "plot_rate_changes", data |-> df] :
        df \in {<<[date |-> "2023-01-02", rate |-> 1500],
                  [date |-> "2023-01-01", rate |-> 1480]>>,
                <<[date |-> "2023-01-01", rate |-> 1520]>>}}
    \cup
    {[fn |-> "generate_correlation_heatmap", data |-> data] :
        data \in {[cols |-> <<<<1, 2, 3>>, <<1, 1, 3>>>>, numeric |-> TRUE],
                  [cols |-> <<<<1, 2, 3>>, <<1, 3, 2>>>>, numeric |-> TRUE]}}

InitThreads ==
    /\ args \in [Threads -> ThreadCalls]
    /\ figs = <<>>
    /\ rcParams = DefaultRc
    /\ files = NoFiles
    /\ ret = NoCall
    /\ prev = NoCall
    /\ threads = [t \in Threads |-> [pc |-> "start", data |-> <<>>, blob |-> NoBlob]]
    /\ browser = NoBrowser

\* plt.subplots() / plt.figure() called by thread t: PltFigure, the figure
\* remembered as the one t created.
ThreadFigure(fs, t) ==
    Append(fs, [num |-> IF fs = <<>> THEN 1
                        ELSE MaxOf({fs[i].num : i \in DOMAIN fs}) + 1,
                fresh |-> TRUE,
                art |-> Blank,
                owner |-> t])

CreatedBy(f, t) == "owner" \in DOMAIN f /\ f.owner = t

\* ax1.bar, ax2.plot, ...: drawing through the axes of the figure t created,
\* open or closed (a closed figure is in no registry and is never saved).
DrawInto(fs, t, art) ==
    [i \in DOMAIN fs |-> IF CreatedBy(fs[i], t) THEN [fs[i] EXCEPT !.art = art]
                         ELSE fs[i]]

At(t, fn, pc) == args[t].fn = fn /\ threads[t].pc = pc

\* plot_rate_changes, lines 41-61: the working table, then plt.close('all')
RateCloseAll(t) ==
    /\ At(t, "plot_rate_changes", "start")
    /\ \E plot_df \in PlotDfs(args[t].data) :
          threads' = [threads EXCEPT ![t].pc = "style", ![t].data = plot_df]
    /\ figs' = PltCloseAll(figs)
    /\ UNCHANGED <<args, rcParams, files, ret, prev, browser>>

\* Lines 62-74: plt.style.use, plt.rcParams.update
RateStyle(t) ==
    /\ At(t, "plot_rate_changes", "style")
    /\ rcParams' = RateRc
    /\ threads' = [threads EXCEPT ![t].pc = "subplots"]
    /\ UNCHANGED <<args, figs, files, ret, prev, browser>>

\* Line 77: fig, (ax1, ax2) = plt.subplots(...)
RateSubplots(t) ==
    /\ At(t, "plot_rate_changes", "subplots")
    /\ figs' = ThreadFigure(figs, t)
    /\ threads' = [threads EXCEPT ![t].pc = "draw"]
    /\ UNCHANGED <<args, rcParams, files, ret, prev, browser>>

\* Lines 81-196: everything drawn through ax1 and ax2, then
\* plt.tight_layout() on the current figure.
RateDraw(t) ==
    /\ At(t, "plot_rate_changes", "draw")
    /\ figs' = Gcf(DrawInto(figs, t,
                            RateArt(threads[t].data, rcParams, DefaultMaxBarLabels)))
    /\ threads' = [threads EXCEPT ![t].pc = "savefig"]
    /\ UNCHANGED <<args, rcParams, files, ret, prev, browser>>

\* Lines 199-200: plt.savefig(img_buffer, format='png', dpi=100)
RateSavefig(t) ==
    /\ At(t, "plot_rate_changes", "savefig")
    /\ figs' = Gcf(figs)
    /\ threads' = [threads EXCEPT ![t].pc = "close",
                                  ![t].blob = B64Encode(Png(figs, 100))]
    /\ UNCHANGED <<args, rcParams, files, ret, prev, browser>>

\* Lines 201-209: plt.close(), the blob returned
RateClose(t) ==
    /\ At(t, "plot_rate_changes", "close")
    /\ figs' = PltClose(figs)
    /\ threads' = [threads EXCEPT ![t].pc = "done"]
    /\ UNCHANGED <<args, rcParams, files, ret, prev, browser>>

\* generate_correlation_heatmap, lines 38-66: the font settings, the matrix
HeatmapCorr(t) ==
    /\ At(t, "generate_correlation_heatmap", "start")
    /\ rcParams' = HeatmapRc(rcParams)
    /\ \E c \in CorrMatrices(args[t].data, "pearson") :
          threads' = [threads EXCEPT ![t].pc = "figure", ![t].data = c.corr]
    /\ UNCHANGED <<args, figs, files, ret, prev, browser>>

\* Line 69: plt.figure(figsize=figsize)
HeatmapFigure(t) ==
    /\ At(t, "generate_correlation_heatmap", "figure")
    /\ figs' = ThreadFigure(figs, t)
    /\ threads' = [threads EXCEPT ![t].pc = "heatmap"]
    /\ UNCHANGED <<args, rcParams, files, ret, prev, browser>>

\* Lines 72-88: sns.heatmap, plt.title, plt.tight_layout, all on the current
\* figure.
HeatmapDraw(t) ==
    /\ At(t, "generate_correlation_heatmap", "heatmap")
    /\ figs' = Draw(figs, [kind |-> "heatmap", corr |-> threads[t].data,
                           mask |-> Mask(Len(args[t].data.cols), TRUE, FALSE),
                           cmap |-> "coolwarm", title |-> DefaultTitle,
                           method |-> "pearson", rc |-> rcParams])
    /\ threads' = [threads EXCEPT ![t].pc = "savefig"]
    /\ UNCHANGED <<args, rcParams, files, ret, prev, browser>>

\* Lines 91-92: plt.savefig(img_buffer, format='png', dpi=150, ...)
HeatmapSavefig(t) ==
    /\ At(t, "generate_correlation_heatmap", "savefig")
    /\ figs' = Gcf(figs)
    /\ threads' = [threads EXCEPT ![t].pc = "close",
                                  ![t].blob = B64Encode(Png(figs, 150))]
    /\ UNCHANGED <<args, rcParams, files, ret, prev, browser>>

\* Lines 93-101: plt.close(), the blob returned
HeatmapClose(t) ==
    /\ At(t, "generate_correlation_heatmap", "close")
    /\ figs' = PltClose(figs)
    /\ threads' = [threads EXCEPT ![t].pc = "done"]
    /\ UNCHANGED <<args, rcParams, files, ret, prev, browser>>

NextThreads ==
    \E t \in Threads :
        \/ RateCloseAll(t)
        \/ RateStyle(t)
        \/ RateSubplots(t)
        \/ RateDraw(t)
        \/ RateSavefig(t)
        \/ RateClose(t)
        \/ HeatmapCorr(t)
        \/ HeatmapFigure(t)
        \/ HeatmapDraw(t)
        \/ HeatmapSavefig(t)
        \/ HeatmapClose(t)

SpecThreads == InitThreads /\ [][NextThreads]_vars

\* ------------------------------------------------------------------------
\* Claims about chart calls in threads (under SpecThreads)
\* ------------------------------------------------------------------------
\* The image thread t's call returned shows the chart of t's own data.
ReturnedOwnChart(t) ==
    LET art == B64Decode(threads[t].blob).art
    IN  IF args[t].fn = "plot_rate_changes"
        THEN art.kind = "rate" /\ art.plot_df = threads[t].data
        ELSE art.kind = "heatmap" /\ art.corr = threads[t].data

\* C12: when two chart calls run in two threads, in no interleaving does one
\* call close, draw into or encode the figure the other created: each call
\* returns the image of its own chart.
C12_EachThreadReturnsOwnChart ==
    \A t \in Threads : threads[t].pc = "done" => ReturnedOwnChart(t)

\* ------------------------------------------------------------------------
\* Claims about the correlation computations of one call (under SpecAdv)
\* ------------------------------------------------------------------------
\* C26: generate_advanced_correlation_heatmap computes the correlation once
\* for every method requested, as often as the method is listed, during the
\* whole call.
C26_OneComputationPerMethod ==
    (AdvancedCalled /\ ret.error = "none") =>
        \A m \in Range(Requested) :
            Count(ret.corr_calls, m) = Count(Requested, m)

\* ------------------------------------------------------------------------
\* More claims about what the rate chart shows (under SpecChart)
\* ------------------------------------------------------------------------
\* The values met most often in values.
MostFrequent(values) ==
    {v \in Range(values) :
        \A w \in Range(values) : Count(values, w) <= Count(values, v)}

Rates == [i \in DOMAIN ret.plot_df |-> ret.plot_df[i].rate]

\* The first index (0-based) at which the series has value v.
FirstAt(v) == MinOf({i \in DOMAIN Rates : Rates[i] = v}) - 1

\* C25: for a series of two or more values that are not all equal, exactly two
\* extrema callouts are drawn: one at the first index holding the maximum, its
\* text at value + 0.1 * range, and one at the first index holding the minimum,
\* its text at value - 0.1 * range.
C25_TwoCalloutsAtFirstExtrema ==
    (RateReturned /\ Len(Rates) >= 2
        /\ \E i, j \in DOMAIN Rates : Rates[i] # Rates[j]) =>
        LET hi == MaxOf(Range(Rates))
            lo == MinOf(Range(Rates))
            c  == RateChart.callouts
        IN  /\ Len(c) = 2
            /\ c[1].type = "max" /\ c[1].idx = FirstAt(hi) /\ c[1].value = hi
            /\ c[1].xytext = [x |-> FirstAt(hi), y10 |-> 10 * hi + (hi - lo)]
            /\ c[2].type = "min" /\ c[2].idx = FirstAt(lo) /\ c[2].value = lo
            /\ c[2].xytext = [x |-> FirstAt(lo), y10 |-> 10 * lo - (hi - lo)]

\* C25's case: the values 1500, 1520, 1480, 1480: the maximum at index 1, the
\* minimum, held twice, at index 2.
C25_Witness ==
    /\ RateReturned
    /\ Rates = <<1500, 1520, 1480, 1480>>
    /\ RateChart.callouts[1].idx = 1
    /\ RateChart.callouts[2].idx = 2

\* C21: the colour scale is centred at zero: when vmin < 0 < vmax, a change of
\* exactly 0 lies at the midpoint of the scale (position 1/2), a change equal
\* to vmin at its lower end and a change equal to vmax at its upper end.
C21_ScaleCentredAtZero ==
    (RateReturned /\ RateChart.vmin.kind = "num" /\ RateChart.vmax.kind = "num"
        /\ RateChart.vmin.twice < 0 /\ RateChart.vmax.twice > 0) =>
        \A i \in DOMAIN Deltas :
            LET pos == RateChart.colors[i].position
            IN  /\ Deltas[i] = 0 => 2 * pos.num = pos.den
                /\ Num(Deltas[i]) = RateChart.vmin => pos.num = 0
                /\ Num(Deltas[i]) = RateChart.vmax => pos.num = pos.den

\* C22: when every change is exactly zero (a single-point series included),
\* plot_rate_changes does not raise and every bar has the same colour.
C22_AllZeroDeltasOneColour ==
    (ret.fn = "plot_rate_changes" /\ args.max_bar_labels >= 1
        /\ \A i, j \in DOMAIN args.df : args.df[i].rate = args.df[j].rate) =>
        /\ ret.error = "none"
        /\ \A i, j \in DOMAIN RateChart.colors :
              RateChart.colors[i].lut = RateChart.colors[j].lut

\* C22's case: a chart returned for three rows of one value, its three bars in
\* the colour of position 0.
C22_Witness ==
    /\ RateReturned
    /\ Rates = <<1520, 1520, 1520>>
    /\ RateChart.vmin = Num(0) /\ RateChart.vmax = Num(0)
    /\ \A i \in 1..3 : RateChart.colors[i].lut = 0

\* ------------------------------------------------------------------------
\* Claims about first_rate (under SpecRate)
\* ------------------------------------------------------------------------
\* What the call may return with first_rate left at its default 0.
ReturnsWithoutFirstRate ==
    {o.ret : o \in PlotRateChanges(args.df, args.max_bar_labels, 0, "", FreshProc)}

PatternRate(pattern, i) ==
    1500 * PerPoint +
        CASE pattern = "climb" -> (i - 1) * (i - 1)
          [] pattern = "steps" -> PerPoint * (i \div 2)
          [] pattern = "creep" -> i - 1
          [] OTHER             -> 3 * ((i - 1) \div 2) + ((i - 1) % 2)

LabelRates ==
    {[i \in 1..n |-> PatternRate(pattern, i)] :
        n \in 0..MaxLabelRows, pattern \in {"climb", "steps", "creep", "drift"}}

\* The working table of a series given in time order.
SeriesPlotDf(rates) ==
    PlotDf([i \in DOMAIN rates |-> [date |-> Days[1], rate |-> rates[i]]],
           [i \in DOMAIN rates |-> i])

InitLabels ==
    /\ args \in [rates : LabelRates, max_bar_labels : 1..MaxLabelCap]
    /\ figs = <<>>
    /\ rcParams = DefaultRc
    /\ files = NoFiles
    /\ ret = NoCall
    /\ prev = NoCall
    /\ threads = NoThreads
    /\ browser = NoBrowser

CallBarLabels ==
    /\ ret = NoCall
    /\ ret' = [fn |-> "bar_labels", error |-> "none",
               plot_df |-> SeriesPlotDf(args.rates),
               labels |-> BarLabels(SeriesPlotDf(args.rates), args.max_bar_labels)]
    /\ UNCHANGED <<args, figs, rcParams, files, prev, threads, browser>>

NextLabels == CallBarLabels

SpecLabels == InitLabels /\ [][NextLabels]_vars

\* ------------------------------------------------------------------------
\* Claims about the bar labels (under SpecLabels)
\* ------------------------------------------------------------------------
Labelled == ret.fn = "bar_labels"

\* stride = max(1, n // max_bar_labels)
Stride ==
    IF Len(args.rates) \div args.max_bar_labels > 1
    THEN Len(args.rates) \div args.max_bar_labels ELSE 1

\* The indices (0-based) that are multiples of the stride.
Candidates == {i \in 0..(Len(args.rates) - 1) : i % Stride = 0}

LabelledIndices == {ret.labels[k].idx : k \in DOMAIN ret.labels}

\* The change of the bar at index i (0-based).
DeltaAt(i) == ret.plot_df[i + 1].rate_change

\* C23 as stated: a bar label is placed at index i if and only if i is a
\* multiple of stride = max(1, n // max_bar_labels).
C23_LabelAtEveryStride == Labelled => LabelledIndices = Candidates

\* C23 amended: a bar label is placed at index i if and only if i is a
\* multiple of the stride and no earlier multiple of the stride has the same
\* change; for n = 23 and max_bar_labels = 5 with all changes different the
\* labelled indices are exactly 0, 4, 8, 12, 16, 20.
C23_LabelAtStrideUnlessSeen ==
    Labelled =>
        /\ LabelledIndices =
              {i \in Candidates : \A j \in Candidates : j < i => DeltaAt(j) # DeltaAt(i)}
        /\ (/\ Len(args.rates) = 23
            /\ args.max_bar_labels = 5
            /\ \A i, j \in Candidates : i # j => DeltaAt(i) # DeltaAt(j)) =>
               LabelledIndices = {0, 4, 8, 12, 16, 20}

\* C23's case: 23 rows with all changes different and max_bar_labels = 5,
\* six labels placed.
C23_Witness ==
    /\ Labelled
    /\ Len(args.rates) = 23
    /\ args.max_bar_labels = 5
    /\ \A i, j \in Candidates : i # j => DeltaAt(i) # DeltaAt(j)
    /\ [k \in DOMAIN ret.labels |-> ret.labels[k].idx] = <<0, 4, 8, 12, 16, 20>>

\* C24: no two labels placed one after the other show the same value, the
\* value shown being the change formatted to one decimal place.
C24_NoEqualTextsInARow ==
    Labelled =>
        \A k \in 1..(Len(ret.labels) - 1) : ret.labels[k].text # ret.labels[k + 1].text

\* C28: no two bar labels carry the same change; a multiple of the stride
\* whose change is that of a bar labelled before it, however far back, gets no
\* label, and the first multiple of the stride with a given change gets one.
C28_NoChangeLabelledTwice ==
    Labelled =>
        /\ \A k, l \in DOMAIN ret.labels :
              k # l => ret.labels[k].value # ret.labels[l].value
        /\ \A i \in Candidates :
              (\E k \in DOMAIN ret.labels :
                  ret.labels[k].idx < i /\ ret.labels[k].value = DeltaAt(i)) =>
                  i \notin LabelledIndices
        /\ \A i \in Candidates :
              (\A j \in Candidates : j < i => DeltaAt(j) # DeltaAt(i)) =>
                  i \in LabelledIndices

\* C28's case: changes of 0 and of one point in turn, every bar a candidate:
\* the third bar repeats the change of the first, not of the second, and only
\* the first two bars are labelled.
C28_Witness ==
    /\ Labelled
    /\ Len(args.rates) = 6
    /\ Stride = 1
    /\ DeltaAt(2) = DeltaAt(0) /\ DeltaAt(2) # DeltaAt(1)
    /\ LabelledIndices = {0, 1}

\* ------------------------------------------------------------------------
\* main's file browser (csv数据分析.py, lines 523-657): Init is the prompt after
\* the first page was displayed; one action per command read at the prompt.
\* File names and filters are sequences of characters.
\* ------------------------------------------------------------------------
PageSize == 10                  \* page_size = 10

DigitChars == <<"0", "1", "2", "3", "4", "5", "6", "7", "8", "9">>

\* The name of the i-th file of a player: the player, two digits, ".csv".
FileName(player, i) ==
    player \o <<DigitChars[(i \div 10) + 1], DigitChars[(i % 10) + 1]>>
           \o <<".", "c", "s", "v">>

Filters == {<<>>, <<"a", "l">>, <<"B", "o">>, <<"C", "S", "V">>, <<"z">>}

\* str.lower() on the characters met here
LowerChar(c) ==
    CASE c = "A" -> "a" [] c = "B" -> "b" [] c = "O" -> "o"
      [] c = "C" -> "c" [] c = "S" -> "s" [] c = "V" -> "v"
      [] OTHER -> c

Lower(text) == [i \in DOMAIN text |-> LowerChar(text[i])]

\* sub in text
Contains(text, sub) ==
    \E i \in 0..(Len(text) - Len(sub)) : SubSeq(text, i + 1, i + Len(sub)) = sub

\* display_files(files, page_size, current_page, filter_text), lines 542-565
DisplayFiles(all_files, page_size, current_page, filter_text) ==
    LET filtered_files == SelectSeq(all_files, LAMBDA f : Contains(Lower(f), Lower(filter_text)))
        total_pages == (Len(filtered_files) + page_size - 1) \div page_size
        low == IF current_page < total_pages THEN current_page ELSE total_pages
    IN  [filtered_files |-> filtered_files,
         total_pages |-> total_pages,
         current_page |-> IF total_pages = 0 THEN current_page
                          ELSE IF low > 1 THEN low ELSE 1]

\* 'n' moving on whatever the page.
NextPageUnchecked(current_page, total_pages) == current_page + 1

\* Lines 586-587: 'n' moves on unless the page is the last.
NextPage(current_page, total_pages) ==
    IF current_page < total_pages THEN current_page + 1 ELSE current_page

\* Lines 595-596: 'p' moves back unless the page is the first.
PrevPage(current_page) == IF current_page > 1 THEN current_page - 1 ELSE current_page

\* The browser after display_files was called with the page and filter given.
Displayed(choice, current_page, filter_text) ==
    LET d == DisplayFiles(args.csv_files, PageSize, current_page, filter_text)
    IN  [pc |-> "prompt", choice |-> choice, filter_text |-> filter_text,
         filtered_files |-> d.filtered_files, total_pages |-> d.total_pages,
         current_page |-> d.current_page]

\* What the selected CSV may hold.
BrowserCsvs ==
    {[df |-> <<[date |-> "2023-01-02", rate |-> 1500, rank |-> 1]>>,
      has_pt |-> FALSE, stats |-> "absent"],
     [df |-> <<[date |-> "2023-01-02", rate |-> 1500, rank |-> 1],
               [date |-> "", rate |-> 1500, rank |-> 2]>>,
      has_pt |-> TRUE, stats |-> "numeric"]}

InitBrowser ==
    /\ \E n \in 1..MaxFiles, k \in 0..MaxFiles :
          /\ k <= n
          /\ args = [csv_files |->
                        [i \in 1..n |-> IF i <= k THEN FileName(<<"A", "l">>, i)
                                        ELSE FileName(<<"B", "O", "B">>, i)]]
    /\ figs = <<>>
    /\ rcParams = HeatmapRc(DefaultRc)
    /\ files = NoFiles
    /\ ret = NoCall
    /\ prev = NoCall
    /\ threads = NoThreads
    /\ browser = Displayed("", 1, <<>>)

Prompting == browser.pc = "prompt"

\* 'q', lines 580-582
MainQuit ==
    /\ Prompting
    /\ browser' = [browser EXCEPT !.pc = "exited", !.choice = "q"]
    /\ UNCHANGED <<args, figs, rcParams, files, ret, prev, threads>>

\* 'n', lines 584-591
MainNextPage ==
    /\ Prompting
    /\ LET current_page == NextPage(browser.current_page, browser.total_pages)
       IN  browser' = IF current_page # browser.current_page
                      THEN Displayed("n", current_page, browser.filter_text)
                      ELSE [browser EXCEPT !.choice = "n"]
    /\ UNCHANGED <<args, figs, rcParams, files, ret, prev, threads>>

\* 'p', lines 593-600
MainPrevPage ==
    /\ Prompting
    /\ LET current_page == PrevPage(browser.current_page)
       IN  browser' = IF current_page # browser.current_page
                      THEN Displayed("p", current_page, browser.filter_text)
                      ELSE [browser EXCEPT !.choice = "p"]
    /\ UNCHANGED <<args, figs, rcParams, files, ret, prev, threads>>

\* 'f', lines 602-607
MainFilter ==
    /\ Prompting
    /\ \E filter_text \in Filters : browser' = Displayed("f", 1, filter_text)
    /\ UNCHANGED <<args, figs, rcParams, files, ret, prev, threads>>

\* A number that selects no file, or a selection not confirmed: lines 609-618,
\* 644-645
MainSelectNothing ==
    /\ Prompting
    /\ browser' = [browser EXCEPT !.choice = "digit"]
    /\ UNCHANGED <<args, figs, rcParams, files, ret, prev, threads>>

\* A number selecting a file, confirmed: lines 609-642.  The report is
\* generated; an exception of it ends main, otherwise the user stops or the
\* list is displayed again.
MainSelect ==
    /\ Prompting
    /\ browser.filtered_files # <<>>
    /\ Len(figs) < MaxFigs
    /\ \E csv \in BrowserCsvs, again \in BOOLEAN :
          \E o \in AnalyzeCsvAndGenerateReport(csv.df, csv.has_pt, csv.stats, Proc) :
             /\ ret' = o.ret
             /\ figs' = o.P.figs
             /\ rcParams' = o.P.rcParams
             /\ files' = o.P.files
             /\ browser' = IF o.ret.error # "none"
                           THEN [browser EXCEPT !.pc = "crashed", !.choice = "digit"]
                           ELSE IF ~again
                           THEN [browser EXCEPT !.pc = "exited", !.choice = "digit"]
                           ELSE Displayed("digit", browser.current_page,
                                          browser.filter_text)
    /\ UNCHANGED <<args, prev, threads>>

\* Anything else, lines 647-648
MainInvalid ==
    /\ Prompting
    /\ browser' = [browser EXCEPT !.choice = "other"]
    /\ UNCHANGED <<args, figs, rcParams, files, ret, prev, threads>>

NextBrowser ==
    \/ MainQuit
    \/ MainNextPage
    \/ MainPrevPage
    \/ MainFilter
    \/ MainSelectNothing
    \/ MainSelect
    \/ MainInvalid

SpecBrowser == InitBrowser /\ [][NextBrowser]_vars

\* ------------------------------------------------------------------------
\* Claims about the file browser (under SpecBrowser)
\* ------------------------------------------------------------------------
PageInRange(b) ==
    b.current_page \in 1..(IF b.total_pages > 1 THEN b.total_pages ELSE 1)

\* C30: after any sequence of n, p and f commands the current page stays
\* within 1..max(1, total_pages): n on the last page and p on the first leave
\* the page as it is, n and p otherwise move by exactly one page, and a filter
\* entered puts the page back to 1.
C30_PageStaysInRange ==
    /\ PageInRange(browser)
    /\ [][/\ PageInRange(browser')
          /\ browser'.choice = "n" =>
                browser'.current_page =
                    IF browser.current_page >= browser.total_pages
                    THEN browser.current_page ELSE browser.current_page + 1
          /\ browser'.choice = "p" =>
                browser'.current_page =
                    IF browser.current_page = 1
                    THEN 1 ELSE browser.current_page - 1
          /\ browser'.choice = "f" => browser'.current_page = 1]_vars

\* C30's case: on the third and last page of a filtered list, reached by n,
\* with n read once more.
C30_Witness ==
    /\ browser.pc = "prompt"
    /\ browser.choice = "n"
    /\ browser.filter_text = <<"B", "o">>
    /\ browser.total_pages = 3
    /\ browser.current_page = 3
    /\ Len(browser.filtered_files) < Len(args.csv_files)

====
